---------------------------- MODULE Spec2Model ----------------------------
(***************************************************************************)
(* Model of cargo-consolidate: the consolidation pass of                   *)
(* src/src/workspace.rs (consolidate_dependencies and its helpers) and the *)
(* feature merge of src/src/dependency.rs.                                 *)
(*                                                                         *)
(* A manifest entry (toml_edit Item) is a record                           *)
(*   [kind, ver, hasF, feats]                                              *)
(* kind = "absent"  no entry under that key                                *)
(*        "str"     a plain version string          dep = "1.0"            *)
(*        "tbl"     a table with a version          dep = { version = .. } *)
(*        "ws"      a shared reference              dep = { workspace = true } *)
(* hasF says whether the table carries a features array, feats is that     *)
(* array in file order.  Feature names and versions are small naturals;    *)
(* the order of the naturals stands for the order of the strings.          *)
(***************************************************************************)
EXTENDS Naturals, Sequences, FiniteSets

\* ---------------------------------------------------------------- bounds
\* Upper bound on the number of declarations in an initial workspace.
MaxEntries == 3
\* Longest feature array drawn as an input of merge_features.
MaxFeatLen == 2

Members == {1, 2}
Deps == {1, 2}
Features == {1, 2, 3}

VARIABLES
    rootDisk,        \* [workspace.dependencies] of the root Cargo.toml on disk
    memberDisk,      \* member Cargo.toml files on disk
    target,          \* per member: deps declared only under [target.*.dependencies]
    group_all,       \* Opt::group_all
    pc,              \* position of the process
    root_doc,        \* in-memory root document (its workspace.dependencies)
    workspace_deps,  \* keys of the workspace_deps HashMap
    dep_usage,       \* HashMap<String, HashSet<String>>
    pending,         \* keys of dep_usage the loop has not yet yielded
    cur,             \* the dependency the loop is at
    todo,            \* users of cur still to be visited, in iteration order
    passNo,          \* 1 for the first run of the tool, 2 for the re-run
    crashed,         \* the first run was killed
    pre,             \* files at the start of the current pass
    orig,            \* files at the start of the first pass
    first,           \* files at the end of the first pass
    writtenMembers,  \* member files written by the current pass
    rootWritten,     \* root file written by the current pass
    mf_existing,     \* merge_features: existing_item
    mf_new,          \* merge_features: new_item
    mf_result,       \* merge_features: returned value
    mf_pc            \* merge_features: called or not

passVars == <<rootDisk, memberDisk, target, group_all, pc, root_doc,
              workspace_deps, dep_usage, pending, cur, todo, passNo, crashed,
              pre, orig, first, writtenMembers, rootWritten>>
mfVars == <<mf_existing, mf_new, mf_result, mf_pc>>
vars == <<passVars, mfVars>>

\* ------------------------------------------------------------------ items
Absent == [kind |-> "absent", ver |-> 0, hasF |-> FALSE, feats |-> <<>>]
Plain(v) == [kind |-> "str", ver |-> v, hasF |-> FALSE, feats |-> <<>>]
Tab(v, f) == [kind |-> "tbl", ver |-> v, hasF |-> TRUE, feats |-> f]
TabNoFeat(v) == [kind |-> "tbl", ver |-> v, hasF |-> FALSE, feats |-> <<>>]
WsRef == [kind |-> "ws", ver |-> 0, hasF |-> FALSE, feats |-> <<>>]
WsRefFeat(f) == [kind |-> "ws", ver |-> 0, hasF |-> TRUE, feats |-> f]

None == [some |-> FALSE, v |-> <<>>]
Some(x) == [some |-> TRUE, v |-> x]
NoItem == [some |-> FALSE, item |-> Absent]
SomeItem(i) == [some |-> TRUE, item |-> i]

Range(s) == {s[i] : i \in 1..Len(s)}

\* ------------------------------------------------------- dependency.rs
\* BTreeSet<String> as the ascending sequence of its elements.
RECURSIVE BTreeInsert(_, _)
BTreeInsert(s, x) ==
    IF s = <<>> THEN <<x>>
    ELSE IF x = Head(s) THEN s
    ELSE IF x < Head(s) THEN <<x>> \o s
    ELSE <<Head(s)>> \o BTreeInsert(Tail(s), x)

\* A Vec in place of the BTreeSet: keeps duplicates and the order of arrival.
ExtendPush(s, v) == s \o v

\* features_set.extend(v)
RECURSIVE Extend(_, _)
Extend(s, v) ==
    IF v = <<>> THEN s ELSE Extend(BTreeInsert(s, Head(v)), Tail(v))

\* get_features: the features array of a table-like item, None otherwise.
get_features(item) ==
    IF item.kind \in {"tbl", "ws"} /\ item.hasF THEN Some(item.feats) ELSE None

\* merge_features(existing_item: Option<&Item>, new_item: &Item)
merge_features(existing_item, new_item) ==
    LET s0 == <<>>
        s1 == IF existing_item.some /\ get_features(existing_item.item).some
              THEN Extend(s0, get_features(existing_item.item).v)
              ELSE s0
        s2 == IF get_features(new_item).some
              THEN Extend(s1, get_features(new_item).v)
              ELSE s1
    IN  IF s2 # <<>> THEN Some(s2) ELSE None

\* ---------------------------------------------------------- toml tables
\* [workspace.dependencies] is a sequence of [name, item] in file order.
Keys(doc) == {doc[i].name : i \in 1..Len(doc)}

TableGet(doc, d) ==
    IF d \in Keys(doc)
    THEN (CHOOSE e \in Range(doc) : e.name = d).item
    ELSE Absent

\* Table::insert: an existing key keeps its place, a new key goes last.
TableInsert(doc, d, item) ==
    IF d \in Keys(doc)
    THEN [i \in 1..Len(doc) |->
             IF doc[i].name = d THEN [name |-> d, item |-> item] ELSE doc[i]]
    ELSE Append(doc, [name |-> d, item |-> item])

\* The three sections of a member manifest, in the order the code visits them.
dep_tables == <<"dependencies", "build-dependencies", "dev-dependencies">>
Sections == 1..Len(dep_tables)

\* ---------------------------------------------------------- workspace.rs
\* get_workspace_dependencies: the HashMap is read only through contains_key,
\* so it is modelled by its key set.
get_workspace_dependencies(doc) == Keys(doc)

\* collect_dependencies over cargo metadata: a member uses d when it declares
\* d in one of the three sections or under a [target.*] table (kind Normal,
\* Build or Development either way).
Declares(mdoc, d) == \E s \in Sections : mdoc[s][d] # Absent

UsageOf(members, tgt) ==
    [d \in Deps |-> {m \in Members : Declares(members[m], d) \/ d \in tgt[m]}]

\* `cargo metadata` rejects a workspace where a member inherits a dependency
\* the root does not define, or where the root table itself inherits.
MetadataOk(root, members) ==
    /\ \A m \in Members, s \in Sections, d \in Deps :
          members[m][s][d].kind = "ws" => d \in Keys(root)
    /\ \A i \in 1..Len(root) : root[i].item.kind # "ws"

\* Grouping with a threshold of three users instead of two.
should_group_three(ga, users) == IF ga THEN TRUE ELSE Cardinality(users) >= 3

\* Grouping whatever the number of users.
should_group_always(ga, users) == TRUE

\* let should_group = if group_all { true } else { users.len() >= 2 };
should_group(ga, users) == IF ga THEN TRUE ELSE Cardinality(users) >= 2

\* The contains_key test left out: every grouped dependency is added again.
NeedsAddAlways(wdeps, d) == TRUE

\* if !workspace_deps.contains_key(dep)
NeedsAdd(wdeps, d) == d \notin wdeps

\* The loop over the sections without its early return: the last entry wins.
FindFromLast(mdoc, d, s) ==
    LET S == {r \in s..Len(dep_tables) : mdoc[r][d] # Absent}
    IN  IF S = {} THEN [ok |-> FALSE, item |-> Absent]
        ELSE [ok |-> TRUE,
              item |-> mdoc[CHOOSE r \in S : \A q \in S : q <= r][d]]

\* The loop over the sections ending in Ok with an empty item, not in Err.
FindFromLenient(mdoc, d, s) ==
    LET S == {r \in s..Len(dep_tables) : mdoc[r][d] # Absent}
    IN  IF S = {} THEN [ok |-> TRUE, item |-> Absent]
        ELSE [ok |-> TRUE,
              item |-> mdoc[CHOOSE r \in S : \A q \in S : r <= q][d]]

\* get_dependency_from_member: the entry of the first section that has one.
RECURSIVE FindFrom(_, _, _)
FindFrom(mdoc, d, s) ==
    IF s > Len(dep_tables) THEN [ok |-> FALSE, item |-> Absent]
    ELSE IF mdoc[s][d] # Absent THEN [ok |-> TRUE, item |-> mdoc[s][d]]
    ELSE FindFrom(mdoc, d, s + 1)

get_dependency_from_member(mdoc, d) == FindFrom(mdoc, d, 1)

\* The rewritten entry without the features of the entry it replaces.
RewriteEntryBare(e) == WsRef

\* The rewritten entry: { workspace = true } plus the merged features.
RewriteEntry(e) ==
    LET f == merge_features(SomeItem(e), WsRef)
    IN  IF f.some THEN WsRefFeat(f.v) ELSE WsRef

\* Only the first section that holds the dependency is rewritten.
RewriteFirstOnly(mdoc, d) ==
    [s \in Sections |->
        IF mdoc[s][d] # Absent /\ \A r \in 1..(s - 1) : mdoc[r][d] = Absent
        THEN [mdoc[s] EXCEPT ![d] = RewriteEntry(mdoc[s][d])]
        ELSE mdoc[s]]

\* update_member_to_use_workspace, the document it writes back.
update_member_to_use_workspace(mdoc, d) ==
    [s \in Sections |->
        IF mdoc[s][d] # Absent
        THEN [mdoc[s] EXCEPT ![d] = RewriteEntry(mdoc[s][d])]
        ELSE mdoc[s]]

\* Iteration orders a HashSet of users can yield.
Orders(S) ==
    {p \in [1..Cardinality(S) -> S] :
        \A i, j \in 1..Cardinality(S) : i # j => p[i] # p[j]}

Files == [root |-> rootDisk, members |-> memberDisk]

\* ------------------------------------------------------ initial workspaces
\* Declarations a member manifest starts with, and the one a root table
\* starts with.
MemberPool == <<Tab(1, <<2, 1>>), Plain(2), WsRef>>
RootPool == <<Tab(2, <<1>>)>>

NM == Cardinality(Members)
ND == Cardinality(Deps)
NS == Len(dep_tables)
\* Slots of a workspace: one per (member, dependency, section), one per
\* (member, dependency) for a target-only declaration, one per root key.
MSlot(m, d, s) == ((m - 1) * ND + (d - 1)) * NS + s
TSlot(m, d) == NM * ND * NS + (m - 1) * ND + d
RSlot(d) == NM * ND * NS + NM * ND + d
NSlots == NM * ND * NS + NM * ND + ND
PoolSize(id) ==
    IF id <= NM * ND * NS THEN Len(MemberPool)
    ELSE IF id <= NM * ND * NS + NM * ND THEN 1
    ELSE Len(RootPool)

Filled(ids, id) == \E i \in DOMAIN ids : ids[i] = id
ChoiceAt(ids, ch, id) == ch[CHOOSE i \in DOMAIN ids : ids[i] = id]

RECURSIVE RootFrom(_, _, _)
RootFrom(ids, ch, d) ==
    IF d > ND THEN <<>>
    ELSE (IF Filled(ids, RSlot(d))
          THEN <<[name |-> d, item |-> RootPool[ChoiceAt(ids, ch, RSlot(d))]]>>
          ELSE <<>>) \o RootFrom(ids, ch, d + 1)

MembersFrom(ids, ch) ==
    [m \in Members |-> [s \in Sections |-> [d \in Deps |->
        IF Filled(ids, MSlot(m, d, s))
        THEN MemberPool[ChoiceAt(ids, ch, MSlot(m, d, s))]
        ELSE Absent]]]

TargetFrom(ids) == [m \in Members |-> {d \in Deps : Filled(ids, TSlot(m, d))}]

NoFiles == [root |-> <<>>, members |-> <<>>]

MfIdle ==
    /\ mf_existing = NoItem
    /\ mf_new = Absent
    /\ mf_result = None
    /\ mf_pc = "off"

Init ==
    /\ \E k \in 0..MaxEntries :
       \E ids \in [1..k -> 1..NSlots] :
          /\ \A i, j \in 1..k : i < j => ids[i] < ids[j]
          /\ \E ch \in [1..k -> 1..Len(MemberPool)] :
                /\ \A i \in 1..k : ch[i] <= PoolSize(ids[i])
                /\ rootDisk = RootFrom(ids, ch, 1)
                /\ memberDisk = MembersFrom(ids, ch)
                /\ target = TargetFrom(ids)
    /\ MetadataOk(rootDisk, memberDisk)
    /\ group_all \in BOOLEAN
    /\ pc = "idle"
    /\ root_doc = <<>>
    /\ workspace_deps = {}
    /\ dep_usage = [d \in Deps |-> {}]
    /\ pending = {}
    /\ cur = 0
    /\ todo = <<>>
    /\ passNo = 1
    /\ crashed = FALSE
    /\ pre = Files
    /\ orig = Files
    /\ first = NoFiles
    /\ writtenMembers = {}
    /\ rootWritten = FALSE
    /\ MfIdle

\* ------------------------------------------------- consolidate_dependencies
diskVars == <<rootDisk, memberDisk, target, group_all>>
histVars == <<passNo, crashed, orig, first>>

\* The process ends: its memory is gone.
Forget ==
    /\ root_doc' = <<>>
    /\ workspace_deps' = {}
    /\ dep_usage' = [d \in Deps |-> {}]
    /\ pending' = {}
    /\ cur' = 0
    /\ todo' = <<>>

\* cargo metadata fails: the pass ends before reading any manifest.
MetadataFails ==
    /\ pc = "idle"
    /\ ~MetadataOk(rootDisk, memberDisk)
    /\ pc' = "failed"
    /\ pre' = Files
    /\ writtenMembers' = {}
    /\ rootWritten' = FALSE
    /\ UNCHANGED <<diskVars, histVars, root_doc, workspace_deps, dep_usage,
                   pending, cur, todo, mfVars>>

\* Lines 13-63: metadata, root document, workspace_deps, dep_usage.
Start ==
    /\ pc = "idle"
    /\ MetadataOk(rootDisk, memberDisk)
    /\ root_doc' = rootDisk
    /\ workspace_deps' = get_workspace_dependencies(rootDisk)
    /\ dep_usage' = UsageOf(memberDisk, target)
    /\ pending' = {d \in Deps : UsageOf(memberDisk, target)[d] # {}}
    /\ pc' = "loop"
    /\ pre' = Files
    /\ writtenMembers' = {}
    /\ rootWritten' = FALSE
    /\ UNCHANGED <<diskVars, histVars, cur, todo, mfVars>>

\* The loop yields a dependency the policy does not group.
SkipDep(d) ==
    /\ pc = "loop"
    /\ d \in pending
    /\ ~should_group(group_all, dep_usage[d])
    /\ pending' = pending \ {d}
    /\ UNCHANGED <<diskVars, histVars, pc, root_doc, workspace_deps, dep_usage,
                   cur, todo, pre, writtenMembers, rootWritten, mfVars>>

\* The loop yields a grouped dependency that workspace_deps already holds.
KeepDep(d) ==
    /\ pc = "loop"
    /\ d \in pending
    /\ should_group(group_all, dep_usage[d])
    /\ ~NeedsAdd(workspace_deps, d)
    /\ \E order \in Orders(dep_usage[d]) : todo' = order
    /\ cur' = d
    /\ pc' = "users"
    /\ UNCHANGED <<diskVars, histVars, root_doc, workspace_deps, dep_usage,
                   pending, pre, writtenMembers, rootWritten, mfVars>>

\* The loop yields a grouped dependency to add: add_dependency_to_workspace
\* copies the entry of the first user the HashSet yields.
AddDep(d) ==
    /\ pc = "loop"
    /\ d \in pending
    /\ should_group(group_all, dep_usage[d])
    /\ NeedsAdd(workspace_deps, d)
    /\ \E order \in Orders(dep_usage[d]) :
          LET got == get_dependency_from_member(memberDisk[order[1]], d)
          IN  /\ got.ok
              /\ root_doc' = TableInsert(root_doc, d, got.item)
              /\ todo' = order
    /\ workspace_deps' = workspace_deps \cup {d}
    /\ cur' = d
    /\ pc' = "users"
    /\ UNCHANGED <<diskVars, histVars, dep_usage, pending, pre,
                   writtenMembers, rootWritten, mfVars>>

\* get_dependency_from_member finds no entry in the first user's manifest:
\* the error propagates out of consolidate_dependencies.  The error names the
\* dependency and the manifest searched; cur and the head of todo keep them.
AddDepFails(d) ==
    /\ pc = "loop"
    /\ d \in pending
    /\ should_group(group_all, dep_usage[d])
    /\ NeedsAdd(workspace_deps, d)
    /\ \E order \in Orders(dep_usage[d]) :
          /\ ~get_dependency_from_member(memberDisk[order[1]], d).ok
          /\ todo' = order
    /\ cur' = d
    /\ pc' = "failed"
    /\ root_doc' = <<>>
    /\ workspace_deps' = {}
    /\ dep_usage' = [e \in Deps |-> {}]
    /\ pending' = {}
    /\ UNCHANGED <<diskVars, histVars, pre, writtenMembers, rootWritten, mfVars>>

\* One turn of `for user in users`: the member file is read, rewritten and
\* written back.
UpdateMember ==
    /\ pc = "users"
    /\ todo # <<>>
    /\ LET m == Head(todo)
       IN  /\ memberDisk' = [memberDisk EXCEPT
                                ![m] = update_member_to_use_workspace(@, cur)]
           /\ writtenMembers' = writtenMembers \cup {m}
    /\ todo' = Tail(todo)
    /\ IF Tail(todo) = <<>>
       THEN /\ pc' = "loop"
            /\ pending' = pending \ {cur}
            /\ cur' = 0
       ELSE UNCHANGED <<pc, pending, cur>>
    /\ UNCHANGED <<rootDisk, target, group_all, histVars, root_doc,
                   workspace_deps, dep_usage, pre, rootWritten, mfVars>>

\* Lines 93-98: the loop is over, the root document is written.
WriteRoot ==
    /\ pc = "loop"
    /\ pending = {}
    /\ rootDisk' = root_doc
    /\ rootWritten' = TRUE
    /\ pc' = "done"
    /\ Forget
    /\ UNCHANGED <<memberDisk, target, group_all, histVars, pre,
                   writtenMembers, mfVars>>

\* The process is killed after a member file was written and before the
\* root file is; the tool is then run again.
Crash ==
    /\ pc \in {"loop", "users"}
    /\ passNo = 1
    /\ writtenMembers # {}
    /\ crashed' = TRUE
    /\ passNo' = 2
    /\ first' = Files
    /\ pc' = "idle"
    /\ Forget
    /\ UNCHANGED <<diskVars, orig, pre, writtenMembers, rootWritten, mfVars>>

\* The tool is run a second time on the files the first run left.
Rerun ==
    /\ pc = "done"
    /\ passNo = 1
    /\ passNo' = 2
    /\ first' = Files
    /\ pc' = "idle"
    /\ UNCHANGED <<diskVars, crashed, orig, pre, writtenMembers, rootWritten,
                   root_doc, workspace_deps, dep_usage, pending, cur, todo,
                   mfVars>>

Next ==
    \/ MetadataFails
    \/ Start
    \/ \E d \in Deps : SkipDep(d)
    \/ \E d \in Deps : KeepDep(d)
    \/ \E d \in Deps : AddDep(d)
    \/ \E d \in Deps : AddDepFails(d)
    \/ UpdateMember
    \/ WriteRoot
    \/ Crash
    \/ Rerun

Spec == Init /\ [][Next]_vars

\* ------------------------------------------------- merge_features in isolation
FeatSeqs == UNION {[1..n -> Features] : n \in 0..MaxFeatLen}
MfItems ==
    {Plain(1), TabNoFeat(1), WsRef}
        \cup {Tab(1, f) : f \in FeatSeqs}
        \cup {WsRefFeat(f) : f \in FeatSeqs}

PassIdle ==
    /\ rootDisk = <<>>
    /\ memberDisk = [m \in Members |-> [s \in Sections |-> [d \in Deps |-> Absent]]]
    /\ target = [m \in Members |-> {}]
    /\ group_all = FALSE
    /\ pc = "off"
    /\ root_doc = <<>>
    /\ workspace_deps = {}
    /\ dep_usage = [d \in Deps |-> {}]
    /\ pending = {}
    /\ cur = 0
    /\ todo = <<>>
    /\ passNo = 1
    /\ crashed = FALSE
    /\ pre = Files
    /\ orig = Files
    /\ first = NoFiles
    /\ writtenMembers = {}
    /\ rootWritten = FALSE

InitMerge ==
    /\ PassIdle
    /\ mf_existing \in {NoItem} \cup {SomeItem(i) : i \in MfItems}
    /\ mf_new \in MfItems
    /\ mf_result = None
    /\ mf_pc = "ready"

CallMerge ==
    /\ mf_pc = "ready"
    /\ mf_result' = merge_features(mf_existing, mf_new)
    /\ mf_pc' = "returned"
    /\ UNCHANGED <<mf_existing, mf_new, passVars>>

NextMerge == CallMerge

SpecMerge == InitMerge /\ [][NextMerge]_vars

\* ------------------------------------------------------------------ claims
\* The feature set an item declares: empty for no item and for no list.
FeatSet(item) == IF item.hasF THEN Range(item.feats) ELSE {}

Ascending(s) == \A i, j \in 1..Len(s) : i < j => s[i] < s[j]

Min(S) == CHOOSE x \in S : \A y \in S : x <= y

RECURSIVE SortedSeq(_)
SortedSeq(S) == IF S = {} THEN <<>> ELSE <<Min(S)>> \o SortedSeq(S \ {Min(S)})

\* The usage map of the pass in progress, from the files it started on.
PreUsage == UsageOf(pre.members, target)

Policy(d) == group_all \/ Cardinality(PreUsage[d]) >= 2

\* The entry of the first section of member m that declares d before the pass.
FirstEntry(files, m, d) ==
    files.members[m][CHOOSE s \in Sections :
        /\ files.members[m][s][d] # Absent
        /\ \A r \in 1..(s - 1) : files.members[m][r][d] = Absent][d]

HasEntry(files, m, d) == \E s \in Sections : files.members[m][s][d] # Absent

\* C1: after a successful pass, a dependency of the usage map that was not in
\* the shared table before is in it when it has two or more users, and, with
\* exactly one user, is in it exactly when group_all is set.
C1_GroupingCorrectness ==
    pc = "done" =>
        \A d \in Deps :
            (PreUsage[d] # {} /\ d \notin Keys(pre.root)) =>
                /\ Cardinality(PreUsage[d]) >= 2 => d \in Keys(rootDisk)
                /\ Cardinality(PreUsage[d]) = 1 =>
                       (d \in Keys(rootDisk) <=> group_all)

C1_Witness ==
    /\ pc = "done"
    /\ ~group_all
    /\ \E d, e \in Deps :
          /\ d \notin Keys(pre.root) /\ Cardinality(PreUsage[d]) >= 2
          /\ d \in Keys(rootDisk)
          /\ e \notin Keys(pre.root) /\ Cardinality(PreUsage[e]) = 1
          /\ e \notin Keys(rootDisk)

\* C2: merge_features returns the duplicate-free ascending sequence of the
\* union of the two feature sets, and no list when the union is empty.
C2_FeatureUnion ==
    mf_pc = "returned" =>
        LET A == IF mf_existing.some THEN FeatSet(mf_existing.item) ELSE {}
            B == FeatSet(mf_new)
        IN  IF A \cup B = {}
            THEN mf_result = None
            ELSE /\ mf_result.some
                 /\ Ascending(mf_result.v)
                 /\ Range(mf_result.v) = A \cup B

C2_Witness ==
    /\ mf_pc = "returned"
    /\ mf_existing.some
    /\ mf_existing.item.feats = <<3, 1>>
    /\ mf_new.feats = <<2, 1>>
    /\ mf_result = Some(<<1, 2, 3>>)

\* C3: a second successful pass over the result of a successful pass, with
\* the same flag, leaves every manifest as the first pass left it.
C3_Idempotence ==
    (pc = "done" /\ passNo = 2 /\ ~crashed) => Files = first

C3_Witness ==
    /\ pc = "done" /\ passNo = 2 /\ ~crashed
    /\ first.root # orig.root
    /\ first.members # orig.members
    /\ writtenMembers # {}

\* C4 as stated: after a successful pass every member that declared a
\* dependency of the shared table still has it, as a shared reference, in
\* every section where it had it.
C4_NoLossAllShared ==
    pc = "done" =>
        \A d \in Keys(rootDisk), m \in Members, s \in Sections :
            pre.members[m][s][d] # Absent => memberDisk[m][s][d].kind = "ws"

\* C4 amended: the same for the dependencies the grouping policy selects
\* (two or more users, or group_all); they are all in the shared table.
C4_NoLossGrouped ==
    pc = "done" =>
        \A d \in Deps :
            (PreUsage[d] # {} /\ Policy(d)) =>
                /\ d \in Keys(rootDisk)
                /\ \A m \in Members, s \in Sections :
                       pre.members[m][s][d] # Absent =>
                           memberDisk[m][s][d].kind = "ws"

C4_Witness ==
    /\ pc = "done"
    /\ \E d \in Deps, m \in Members, s, r \in Sections :
          /\ Policy(d)
          /\ s < r
          /\ pre.members[m][s][d].kind = "tbl"
          /\ pre.members[m][r][d].kind = "str"
          /\ memberDisk[m][s][d].kind = "ws"
          /\ memberDisk[m][r][d].kind = "ws"

\* The pass run in the order the specification asks for: dependency names
\* ascending, the least user as the source of a new shared entry.
RECURSIVE SortedRun(_, _, _)
SortedRun(files, d, doc) ==
    IF d > ND THEN [ok |-> TRUE, root |-> doc]
    ELSE LET users == UsageOf(files.members, target)[d]
         IN  IF users = {} \/ ~should_group(group_all, users)
                \/ ~NeedsAdd(Keys(doc), d)
             THEN SortedRun(files, d + 1, doc)
             ELSE LET got == get_dependency_from_member(
                                 files.members[Min(users)], d)
                  IN  IF got.ok
                      THEN SortedRun(files, d + 1, TableInsert(doc, d, got.item))
                      ELSE [ok |-> FALSE, root |-> doc]

\* C5: the manifests a pass produces depend on the input manifests and the
\* flag only, not on the order the maps are iterated in; so every first pass
\* ends as the pass run in sorted order over the same input ends.
C5_Determinism ==
    (pc = "done" /\ passNo = 1) =>
        /\ SortedRun(orig, 1, orig.root).ok
        /\ rootDisk = SortedRun(orig, 1, orig.root).root

\* C6: a pass that fails has written no manifest file.
C6_NoPartialFlush ==
    pc = "failed" => (writtenMembers = {} /\ ~rootWritten)

\* The features the users of d declared for it before the pass, with those of
\* the shared entry it had.
DeclaredFeatures(d) ==
    UNION {FeatSet(pre.members[m][s][d]) : m \in Members, s \in Sections}
        \cup FeatSet(TableGet(pre.root, d))

\* C7 as stated: after a successful pass the shared entry of a hoisted
\* dependency lists the sorted union of the features its users declared and
\* of the features the entry had.
C7_SharedFeaturesUnion ==
    pc = "done" =>
        \A d \in Deps :
            (PreUsage[d] # {} /\ Policy(d) /\ d \in Keys(rootDisk)) =>
                LET e == TableGet(rootDisk, d)
                IN  IF DeclaredFeatures(d) = {}
                    THEN ~e.hasF
                    ELSE e.hasF /\ e.feats = SortedSeq(DeclaredFeatures(d))

\* C7 amended: the shared entry of a newly hoisted dependency is the
\* declaration of one of its users, the one in the first section of that
\* member that has it, feature list included as written; an entry that was in
\* the shared table already is left as it was.
C7_SharedFeaturesOfOneUser ==
    pc = "done" =>
        \A d \in Deps :
            /\ (PreUsage[d] # {} /\ Policy(d) /\ d \notin Keys(pre.root)) =>
                   \E u \in PreUsage[d] :
                       /\ HasEntry(pre, u, d)
                       /\ TableGet(rootDisk, d) = FirstEntry(pre, u, d)
            /\ d \in Keys(pre.root) =>
                   TableGet(rootDisk, d) = TableGet(pre.root, d)

C7_Witness ==
    /\ pc = "done"
    /\ \E d \in Deps, u \in Members, s, r \in Sections :
          /\ d \notin Keys(pre.root)
          /\ s < r
          /\ pre.members[u][s][d] = Plain(2)
          /\ pre.members[u][r][d] = Tab(1, <<2, 1>>)
          /\ TableGet(rootDisk, d) = Plain(2)

\* C8: a dependency that is not in the shared table and that the policy does
\* not group (one user, group_all false) is not in the shared table after the
\* pass, and no member's declaration of it has changed.
C8_UngroupedUntouched ==
    pc = "done" =>
        \A d \in Deps :
            (d \notin Keys(pre.root) /\ Cardinality(PreUsage[d]) = 1
                /\ ~group_all) =>
                /\ d \notin Keys(rootDisk)
                /\ \A m \in Members, s \in Sections :
                       memberDisk[m][s][d] = pre.members[m][s][d]

C8_Witness ==
    /\ pc = "done"
    /\ ~group_all
    /\ \E d \in Deps, m \in Members :
          /\ d \notin Keys(pre.root)
          /\ PreUsage[d] = {m}
          /\ HasEntry(pre, m, d)
          /\ m \in writtenMembers
          /\ d \notin Keys(rootDisk)

\* The member manifests an uninterrupted pass leaves: every declaration of a
\* grouped dependency rewritten.
RECURSIVE RewrittenFrom(_, _, _)
RewrittenFrom(files, mdoc, d) ==
    IF d > ND THEN mdoc
    ELSE IF should_group(group_all, UsageOf(files.members, target)[d])
    THEN RewrittenFrom(files, update_member_to_use_workspace(mdoc, d), d + 1)
    ELSE RewrittenFrom(files, mdoc, d + 1)

\* now is a result an uninterrupted successful pass over files can give.
UninterruptedOutcome(now, files) ==
    LET usage == UsageOf(files.members, target)
        grouped == {d \in Deps : usage[d] # {} /\ should_group(group_all, usage[d])}
    IN  /\ \A m \in Members :
               now.members[m] = RewrittenFrom(files, files.members[m], 1)
        /\ Keys(now.root) = Keys(files.root) \cup grouped
        /\ \A d \in Keys(files.root) :
               TableGet(now.root, d) = TableGet(files.root, d)
        /\ \A d \in grouped \ Keys(files.root) :
               \E u \in usage[d] :
                   /\ HasEntry(files, u, d)
                   /\ TableGet(now.root, d) = FirstEntry(files, u, d)

\* C9: after a pass was killed between two of its file writes, running the
\* tool again succeeds and leaves the manifests an uninterrupted pass over
\* the original workspace leaves; no shared entry is a shared reference.
C9_CrashRepair ==
    (crashed /\ pc \in {"done", "failed"}) =>
        /\ pc = "done"
        /\ UninterruptedOutcome(Files, orig)
        /\ \A i \in 1..Len(rootDisk) : rootDisk[i].item.kind # "ws"

\* C10 as stated: a dependency that is in the shared table before the pass
\* has every declaration of its users rewritten to a shared reference, also
\* with one user and group_all false.
C10_AlreadySharedAlwaysRewritten ==
    pc = "done" =>
        \A d \in Keys(pre.root), m \in Members, s \in Sections :
            (Cardinality(PreUsage[d]) = 1 /\ ~group_all
                /\ pre.members[m][s][d] # Absent) =>
                memberDisk[m][s][d].kind = "ws"

\* C10 amended: a dependency that is in the shared table before the pass is
\* rewritten in its users only when the policy groups it; with one user and
\* group_all false the pass leaves every declaration of it as it was.  The
\* shared entry is left as it was either way.
C10_AlreadySharedFollowsPolicy ==
    pc = "done" =>
        \A d \in Keys(pre.root) :
            /\ TableGet(rootDisk, d) = TableGet(pre.root, d)
            /\ \A m \in Members, s \in Sections :
                   pre.members[m][s][d] # Absent =>
                       IF group_all \/ Cardinality(PreUsage[d]) >= 2
                       THEN memberDisk[m][s][d].kind = "ws"
                       ELSE memberDisk[m][s][d] = pre.members[m][s][d]

C10_Witness ==
    /\ pc = "done"
    /\ ~group_all
    /\ \E d \in Keys(pre.root), m \in Members :
          /\ PreUsage[d] = {m}
          /\ HasEntry(pre, m, d)
          /\ FirstEntry(pre, m, d).kind = "str"
          /\ FirstEntry(Files, m, d).kind = "str"

\* The shared reference that lists the feature set F: ascending, no list
\* when F is empty.
RefWith(F) == IF F = {} THEN WsRef ELSE WsRefFeat(SortedSeq(F))

\* C11 as stated: the shared reference that replaces a member's declaration
\* of a hoisted dependency lists the member's features that the shared
\* declaration does not list, and no list when there is none.
C11_RefKeepsUncoveredFeatures ==
    pc = "done" =>
        \A d \in Deps, m \in Members, s \in Sections :
            (Policy(d) /\ pre.members[m][s][d] # Absent) =>
                memberDisk[m][s][d] =
                    RefWith(FeatSet(pre.members[m][s][d])
                                \ FeatSet(TableGet(rootDisk, d)))

\* C11 amended: the shared reference lists every feature the member's
\* declaration listed, ascending and without duplicates, whether the shared
\* declaration lists it or not, and no list when the member listed none.
C11_RefKeepsMemberFeatures ==
    pc = "done" =>
        \A d \in Deps, m \in Members, s \in Sections :
            (Policy(d) /\ pre.members[m][s][d] # Absent) =>
                memberDisk[m][s][d] = RefWith(FeatSet(pre.members[m][s][d]))

C11_Witness ==
    /\ pc = "done"
    /\ \E d \in Deps, m, n \in Members, s, r \in Sections :
          /\ Policy(d)
          /\ pre.members[m][s][d] = Tab(1, <<2, 1>>)
          /\ TableGet(rootDisk, d) = Tab(1, <<2, 1>>)
          /\ memberDisk[m][s][d] = WsRefFeat(<<1, 2>>)
          /\ pre.members[n][r][d] = Plain(2)
          /\ memberDisk[n][r][d] = WsRef

\* C12: on the first hoist of a dependency the shared entry is the
\* declaration of the least member of its usage set; when the members
\* declare different versions the shared entry has that member's version.
C12_LeastMemberIsSource ==
    pc = "done" =>
        \A d \in Deps :
            (PreUsage[d] # {} /\ Policy(d) /\ d \notin Keys(pre.root)) =>
                /\ HasEntry(pre, Min(PreUsage[d]), d)
                /\ TableGet(rootDisk, d) = FirstEntry(pre, Min(PreUsage[d]), d)

\* C13: when the member chosen as the source of a first hoist has the
\* dependency in none of its three sections, the pass fails: a dependency is
\* added only from a source that has an entry, and the failing pass leaves the
\* dependency out of the shared table, rewrites no member for it and does not
\* write the root manifest.
C13_MissingSourceFails ==
    [][/\ (pc = "loop" /\ pc' = "users" /\ cur' \notin workspace_deps) =>
              HasEntry(Files, Head(todo'), cur')
       /\ (pc = "loop" /\ pc' = "failed") =>
              /\ ~HasEntry(Files, Head(todo'), cur')
              /\ cur' \notin Keys(rootDisk')
              /\ rootDisk' = pre.root
              /\ ~rootWritten'
              /\ \A m \in Members, s \in Sections :
                     memberDisk'[m][s][cur'] = pre.members[m][s][cur']]_vars

C13_Witness ==
    /\ pc = "failed"
    /\ cur # 0
    /\ ~HasEntry(Files, Head(todo), cur)
    /\ cur \in target[Head(todo)]
    /\ \E n \in Members :
          /\ n # Head(todo)
          /\ HasEntry(Files, n, cur)
          /\ FirstEntry(Files, n, cur).kind = "str"
    /\ cur \notin Keys(rootDisk)

\* The fields of an entry other than its feature list.
NonFeature(item) == [kind |-> item.kind, ver |-> item.ver]

KeepsShared(doc) ==
    /\ Keys(pre.root) \subseteq Keys(doc)
    /\ \A d \in Keys(pre.root) :
           NonFeature(TableGet(doc, d)) = NonFeature(TableGet(pre.root, d))

\* C14: a pass removes no key from the shared table, and an entry that was
\* in it before the pass keeps its version and its other non-feature fields,
\* in the document in memory and in the file, whatever the members declare.
C14_SharedEntriesKept ==
    /\ KeepsShared(rootDisk)
    /\ pc \in {"loop", "users"} => KeepsShared(root_doc)

C14_Witness ==
    /\ pc = "done"
    /\ rootWritten
    /\ \E d \in Keys(pre.root), m \in Members, s \in Sections :
          /\ Policy(d)
          /\ pre.members[m][s][d] = Tab(1, <<2, 1>>)
          /\ memberDisk[m][s][d].kind = "ws"
          /\ TableGet(pre.root, d) = Tab(2, <<1>>)
          /\ TableGet(rootDisk, d) = Tab(2, <<1>>)
          /\ Len(rootDisk) > Len(pre.root)

====
